---- MODULE Spec2Model ----
(***************************************************************************)
(* Helios: the ingestion service (HTTP handlers that validate, enrich and  *)
(* publish events to the Kafka topic), the storage writer (the consumer    *)
(* that fetches the topic, batches events and inserts them in TimescaleDB) *)
(* and the detector (the consumer that folds events into 5-minute windows, *)
(* scores them and publishes anomaly records).                             *)
(*                                                                         *)
(* Nine specifications share the variables:                               *)
(*   SpecIngest  the request handlers of services/ingestion, each request  *)
(*               served in one step                                        *)
(*   SpecBatchLimits  the batch handler on batches around the size limits  *)
(*   SpecServe   the serving process: concurrent requests, GET /ready, the *)
(*               log failing and recovering, the read and write timeouts   *)
(*   SpecShutdown  the serving process from the shutdown signal to exit    *)
(*   SpecWriter  the storage writer process: main, the fetch loop (Start)  *)
(*               and the batchWriter goroutine, with kill and restart      *)
(*   SpecFlush   the fetch loop and the batchWriter without shutdown, with *)
(*               fairness of the batchWriter and its ticker                *)
(*   SpecStop    the two goroutines of the storage writer with failing      *)
(*               fetches and the cancellation of the context, with fairness *)
(*   SpecDetector  the detector: events consumed, the periodic tick, time  *)
(*   SpecDetectorSpread  the detector on events of more buckets than the   *)
(*               cap on the buckets of a service                           *)
(***************************************************************************)
EXTENDS Bags, FiniteSets, Integers, Sequences, TLC

VARIABLES
    now,                 \* wall clock read by time.Now()
    log,                 \* the records of the events topic, in offset order
    \* ---- ingestion service
    handled,             \* number of requests served so far
    lastResp,            \* the last request served and the response written
    acked,               \* messages of the events acknowledged with 202
    eventsIngested,      \* helios_events_ingested_total{service,level,status}
    kafkaProducerErrors, \* helios_kafka_producer_errors_total
    reachable,           \* the brokers of the log answer
    srvpc,               \* main: "serving", "draining", "closing", "closed", "exited"
    sigAt,               \* instant of the shutdown signal, 0: none yet
    writerClosed,        \* kafkaWriter.Close() has been called
    conns,               \* the requests in flight, one per connection
    lastReady,           \* the last answer of GET /ready
    \* ---- storage writer
    proc,                \* "up" or "down": the storage writer process
    restarts,            \* how often the process was started again
    ctxDone,             \* main's context has been cancelled
    mainpc,              \* main: "wait" (on the signal), "sleep", "closed", "exited"
    committed,           \* committed offset of group storage-writers, -1: none
    pos,                 \* offset of the next message the reader fetches
    fpc,                 \* fetch loop: "select", "send", "commit", "done"
    cur,                 \* the message the fetch loop holds, and its event
    batchCh,             \* sw.batchCh, the buffered channel
    bwpc,                \* batchWriter: "run" or "done"
    batch,               \* batchWriter's local batch
    rows,                \* rows of the events table, in insert order
    flushed,             \* the writeBatch call of the last step, if it made one
    exitCode,            \* exit code of the process that ended last, -1: none
    exitCause,           \* why it ended: "none", "clean", "killed", or a startup failure
    fetchErrs,           \* the offsets at which a fetch failed and was logged
    dbClosed,            \* StorageWriter.Close() has closed the reader and the database
    \* ---- detector
    windows,             \* per service, bucket start -> accumulator of the bucket
    lastAlert,           \* last_alert_emitted: per service, -1: none
    anomalies,           \* the records of the anomaly-alerts topic, in offset order
    scorings,            \* the (service, bucket start) of every scoring, in order
    suppressed,          \* alerts_suppressed_total
    consumed             \* number of events the detector has consumed

serveVars == <<reachable, srvpc, sigAt, writerClosed, conns, lastReady>>
ingestVars == <<handled, lastResp, acked, eventsIngested, kafkaProducerErrors, serveVars>>
writerVars == <<proc, restarts, ctxDone, mainpc, committed, pos, fpc, cur,
                batchCh, bwpc, batch, rows, flushed, exitCode, exitCause>>
stopVars == <<fetchErrs, dbClosed>>
detVars == <<windows, lastAlert, anomalies, scorings, suppressed, consumed>>
vars == <<now, log, ingestVars, writerVars, stopVars, detVars>>

(***************************************************************************)
(* Bounds of the model.                                                    *)
(***************************************************************************)
MaxNow == 2          \* the clock runs from 1 to MaxNow
MaxRequests == 2     \* requests served in one behaviour
MaxLog == 3          \* messages produced to the topic in SpecWriter
MaxFetchErrors == 1  \* the fetch may fail, once, at each offset below this one
MaxRestarts == 1     \* restarts of the storage writer process
ChanCap == 1         \* capacity of batchCh (1000 in the code), scaled
BatchTarget == 2     \* batch size that triggers a flush (100 in the code), scaled
NumPartitions == 3   \* partitions of the events topic
MaxConns == 2        \* connections with a request in flight
TimeStep == 5        \* seconds by which the clock of the service advances
MaxServeNow == 11    \* the clock of SpecServe runs from 1 to MaxServeNow
MaxDrainNow == 31    \* the clock of SpecShutdown runs from 1 to MaxDrainNow
MinEventsPerWindow == 2  \* MIN_EVENTS_PER_WINDOW (default 10), scaled
MaxEvents == 5       \* events the detector consumes in one behaviour
DetStep == 300       \* seconds by which the clock of the detector advances
MaxDetNow == 901     \* the clock of SpecDetector runs from 1 to MaxDetNow

(***************************************************************************)
(* Program constants.                                                      *)
(***************************************************************************)
MaxServiceLen == 255     \* validate:"max=255" on Event.Service
MinBatchEvents == 1      \* validate:"min=1" on EventBatch.Events
MaxBatchEvents == 1000   \* validate:"max=1000" on EventBatch.Events

StatusAccepted == 202
StatusBadRequest == 400
StatusInternalServerError == 500
StatusServiceUnavailable == 503

FatalExitCode == 1       \* log.Fatal(): zerolog calls os.Exit(1)

StatusOK == 200
ReadTimeout == 15        \* http.Server.ReadTimeout, seconds
SingleWriteTimeout == 5  \* context.WithTimeout of IngestEvent, seconds
BatchWriteTimeout == 10  \* context.WithTimeout of IngestEventBatch, seconds
ShutdownTimeout == 30    \* context.WithTimeout of server.Shutdown, seconds

Levels == {"DEBUG", "INFO", "WARN", "ERROR", "CRITICAL"}
Hostname == "ingest-1"

RECURSIVE Rep(_, _)
Rep(s, n) ==
    IF n = 0 THEN ""
    ELSE LET half == Rep(s, n \div 2)
         IN  IF n % 2 = 0 THEN half \o half ELSE half \o half \o s

RECURSIVE SumCopies(_, _)
SumCopies(bag, S) ==
    IF S = {} THEN 0
    ELSE LET x == CHOOSE y \in S : TRUE IN CopiesIn(x, bag) + SumCopies(bag, S \ {x})

\* the sum of a counter vector over the label sets with the given status
WithStatus(counter, status) ==
    SumCopies(counter, {l \in BagToSet(counter) : l[3] = status})

Range(s) == {s[i] : i \in 1..Len(s)}
Count(s, x) == Cardinality({i \in 1..Len(s) : s[i] = x})

(***************************************************************************)
(* models.Event.  A field absent from the request body decodes to the zero *)
(* value: 0 for a time, "" for a string, the nil map for the metadata.  A  *)
(* time is its instant.  A map is nil or holds a set of key/value pairs.   *)
(***************************************************************************)
NilMetadata == [isNil |-> TRUE, kv |-> {}]          \* absent, or null
EmptyMetadata == [isNil |-> FALSE, kv |-> {}]       \* "metadata": {}
SomeMetadata == [isNil |-> FALSE, kv |-> {<<"region", "eu">>}]

Event(ts, service, level, message) ==
    [timestamp |-> ts, service |-> service, level |-> level, message |-> message,
     metadata |-> NilMetadata, trace_id |-> "", span_id |-> "",
     ingested_at |-> 0, host |-> ""]

ZeroEvent == Event(0, "", "", "")

\* ValidStruct without the oneof tag of Level
ValidStructNoOneof(e) ==
    /\ e.timestamp # 0
    /\ e.service # "" /\ Len(e.service) >= 1 /\ Len(e.service) <= MaxServiceLen
    /\ e.level # ""
    /\ e.message # "" /\ Len(e.message) >= 1

\* validator.Struct(event): the validate tags of models.Event
ValidStruct(e) ==
    /\ e.timestamp # 0                                     \* required
    /\ e.service # "" /\ Len(e.service) >= 1
                      /\ Len(e.service) <= MaxServiceLen   \* required,min=1,max=255
    /\ e.level # "" /\ e.level \in Levels                  \* required,oneof=...
    /\ e.message # "" /\ Len(e.message) >= 1               \* required,min=1

\* Event.Validate: fills a zero timestamp, sets IngestedAt; never fails
Validate(e, t) ==
    [e EXCEPT !.timestamp = IF e.timestamp = 0 THEN t ELSE e.timestamp,
              !.ingested_at = t]

\* SetHost leaving the host empty
SetHostSkipped(e) == e

\* event.Host = h.hostname
SetHost(e) == [e EXCEPT !.host = Hostname]

\* Event.ToJSON: json.Marshal with the struct's json tags; the fields tagged
\* omitempty are left out when empty: a map of length 0 (nil or not), a string
\* of length 0 (a time.Time is never empty)
JSONKeys(e) ==
    {"timestamp", "service", "level", "message", "ingested_at"}
        \cup (IF e.metadata.kv # {} THEN {"metadata"} ELSE {})
        \cup (IF e.trace_id # "" THEN {"trace_id"} ELSE {})
        \cup (IF e.span_id # "" THEN {"span_id"} ELSE {})
        \cup (IF e.host # "" THEN {"host"} ELSE {})

\* the JSON value of a field: a map is written as an object of its pairs
JSONValue(e, k) == IF k = "metadata" THEN e.metadata.kv ELSE e[k]

ToJSON(e) == [err |-> FALSE, bytes |-> [k \in JSONKeys(e) |-> JSONValue(e, k)]]

\* GetPartitionKey returning the level
GetPartitionKeyLevel(e) == e.level

\* Event.GetPartitionKey
GetPartitionKey(e) == e.service

\* kafka.Message{Key, Value, Time}
Message(e, bytes) == [key |-> GetPartitionKey(e), value |-> bytes, time |-> e.timestamp]

\* fnv.New32a over the key, for the services of the model (all below 2^31,
\* where the conversion int32(hasher.Sum32()) is the identity)
Fnv1a32 == [api |-> 946514567, db |-> 1461503683]

\* the remainder of Go: its sign is the sign of the dividend
GoRem(a, n) == IF a >= 0 THEN a % n ELSE -((-a) % n)

\* Balancer: &kafka.Hash{}: the partition of a message with a key
Balance(msg, n) ==
    LET partition == GoRem(Fnv1a32[msg.key], n)
    IN  IF partition < 0 THEN -partition ELSE partition

(***************************************************************************)
(* The producer.  kafka.Writer.WriteMessages is synchronous: it returns    *)
(* nil once every message is acknowledged by the log.  When it returns an  *)
(* error, the messages of some partitions (keys) may have been written all *)
(* the same: a batch per partition succeeds or fails on its own, and an    *)
(* acknowledgement can be lost after the write.  Without messages it       *)
(* returns nil at once.                                                    *)
(***************************************************************************)
KeysOf(msgs) == {msgs[i].key : i \in 1..Len(msgs)}
WithKeys(msgs, K) == SelectSeq(msgs, LAMBDA m : m.key \in K)

WriteOutcomes(msgs) ==
    {[err |-> FALSE, written |-> msgs]}
        \cup (IF msgs = <<>> THEN {}
              ELSE {[err |-> TRUE, written |-> WithKeys(msgs, K)] : K \in SUBSET KeysOf(msgs)})

(***************************************************************************)
(* Request bodies.  json.Decoder.Decode fails on a body that is not JSON   *)
(* of the expected shape (ok = FALSE); otherwise it yields the struct.     *)
(***************************************************************************)
LongService == Rep("x", MaxServiceLen + 1)

V1 == Event(1, "api", "INFO", "ok")
V2 == Event(1, "db", "ERROR", "down")
BadService == Event(1, "", "INFO", "ok")
NoTimestamp == Event(0, "api", "INFO", "ok")

Traced == [V1 EXCEPT !.metadata = SomeMetadata, !.trace_id = "t1", !.span_id = "s1"]
EmptyMeta == [V2 EXCEPT !.metadata = EmptyMetadata]

ValidEvents == {V1, V2, Traced, EmptyMeta}
InvalidEvents ==
    {BadService,                             \* service missing or empty
     Event(1, LongService, "INFO", "ok"),    \* service longer than 255
     Event(1, "api", "TRACE", "ok"),         \* level outside the closed set
     Event(1, "api", "", "ok"),              \* level missing
     Event(1, "api", "INFO", "")}            \* message missing or empty
NoTimestampEvents == {NoTimestamp}
RequestEvents == ValidEvents \cup InvalidEvents \cup NoTimestampEvents

SingleBodies ==
    {[ok |-> FALSE, event |-> ZeroEvent]} \cup {[ok |-> TRUE, event |-> e] : e \in RequestEvents}

Uniform(e, n) == [i \in 1..n |-> e]

BatchBody(events) == [ok |-> TRUE, isNil |-> FALSE, events |-> events]
MalformedBatch == [ok |-> FALSE, isNil |-> TRUE, events |-> <<>>]   \* not JSON
NilBatch == [ok |-> TRUE, isNil |-> TRUE, events |-> <<>>]          \* no "events" key

\* batch requests of a few events, valid and invalid ones mixed
BatchBodies ==
    {MalformedBatch, NilBatch}
        \cup {BatchBody(s) : s \in {<<>>, <<V1>>, <<V1, V2>>, <<V1, BadService>>,
                                    <<BadService, V2>>, <<BadService>>,
                                    <<NoTimestamp>>, <<V1, NoTimestamp>>}}

\* batch requests at the limits of the accepted sizes
LimitBatchBodies ==
    {MalformedBatch, NilBatch}
        \cup {BatchBody(s) : s \in {<<>>, <<V1>>, <<V1, V2>>,
                                    Uniform(V1, MaxBatchEvents - 1),
                                    Uniform(V1, MaxBatchEvents),
                                    Uniform(V1, MaxBatchEvents + 1)}}

\* BatchValid with the upper limit off by one
BatchValidOffByOne(b) ==
    /\ ~b.isNil
    /\ Len(b.events) >= MinBatchEvents
    /\ Len(b.events) <= MaxBatchEvents + 1
    /\ \A i \in 1..Len(b.events) : ValidStruct(b.events[i])

\* validator.Struct(batch): validate:"required,min=1,max=1000,dive"
BatchValid(b) ==
    /\ ~b.isNil
    /\ Len(b.events) >= MinBatchEvents
    /\ Len(b.events) <= MaxBatchEvents
    /\ \A i \in 1..Len(b.events) : ValidStruct(b.events[i])

Label(e, status) == <<e.service, e.level, status>>
Inc(counter, label) == counter (+) SetToBag({label})

NoResp ==
    [kind |-> "none", body |-> [ok |-> FALSE], status |-> 0, called |-> FALSE,
     messages |-> <<>>, writeErr |-> FALSE, total |-> 0, success_count |-> 0,
     error_count |-> 0, at |-> 0]

Resp(kind, body, status, called, messages, writeErr, total, sc, ec) ==
    [kind |-> kind, body |-> body, status |-> status, called |-> called,
     messages |-> messages, writeErr |-> writeErr, total |-> total,
     success_count |-> sc, error_count |-> ec, at |-> now]

\* SingleWriteStatus with the error of WriteMessages ignored
SingleWriteStatusIgnoresErr(err) == StatusAccepted

\* SingleWriteStatus failing for good after the first producer error
SingleWriteStatusSticky(err) ==
    IF err \/ kafkaProducerErrors > 0 THEN StatusServiceUnavailable ELSE StatusAccepted

\* the status IngestEvent answers once WriteMessages has returned
SingleWriteStatus(err) ==
    IF err THEN StatusServiceUnavailable ELSE StatusAccepted

\* SingleWriteMetrics with the success counter incremented before the error check
SingleWriteMetricsSuccessFirst(e, err) ==
    IF err
    THEN [ingested |-> Inc(Inc(eventsIngested, Label(e, "success")), Label(e, "kafka_error")),
          producerErrors |-> kafkaProducerErrors + 1]
    ELSE [ingested |-> Inc(eventsIngested, Label(e, "success")),
          producerErrors |-> kafkaProducerErrors]

\* SingleWriteMetrics counting nothing in events_ingested_total on an error
SingleWriteMetricsErrUncounted(e, err) ==
    IF err
    THEN [ingested |-> eventsIngested,
          producerErrors |-> kafkaProducerErrors + 1]
    ELSE [ingested |-> Inc(eventsIngested, Label(e, "success")),
          producerErrors |-> kafkaProducerErrors]

\* the counters IngestEvent touches once WriteMessages has returned
SingleWriteMetrics(e, err) ==
    IF err
    THEN [ingested |-> Inc(eventsIngested, Label(e, "kafka_error")),
          producerErrors |-> kafkaProducerErrors + 1]
    ELSE [ingested |-> Inc(eventsIngested, Label(e, "success")),
          producerErrors |-> kafkaProducerErrors]

(***************************************************************************)
(* EventHandler.IngestEvent: POST /api/v1/events                           *)
(***************************************************************************)
IngestEvent ==
    /\ handled < MaxRequests
    /\ \E body \in SingleBodies :
        LET event == body.event
            enriched == SetHost(Validate(event, now))
            json == ToJSON(enriched)
            msg == Message(enriched, json.bytes)
        IN  IF ~body.ok
            THEN \* Invalid JSON
                 /\ lastResp' = Resp("single", body, StatusBadRequest, FALSE, <<>>, FALSE, 0, 0, 0)
                 /\ eventsIngested' = Inc(eventsIngested, <<"unknown", "unknown", "error">>)
                 /\ UNCHANGED <<log, acked, kafkaProducerErrors>>
            ELSE IF ~ValidStruct(event)
            THEN \* Validation failed
                 /\ lastResp' = Resp("single", body, StatusBadRequest, FALSE, <<>>, FALSE, 0, 0, 0)
                 /\ eventsIngested' = Inc(eventsIngested, Label(event, "validation_error"))
                 /\ UNCHANGED <<log, acked, kafkaProducerErrors>>
            ELSE IF json.err
            THEN \* Failed to serialize event
                 /\ lastResp' = Resp("single", body, StatusInternalServerError, FALSE, <<>>, FALSE, 0, 0, 0)
                 /\ eventsIngested' = Inc(eventsIngested, Label(enriched, "serialization_error"))
                 /\ UNCHANGED <<log, acked, kafkaProducerErrors>>
            ELSE \E w \in WriteOutcomes(<<msg>>) :
                 LET status == SingleWriteStatus(w.err)
                     m == SingleWriteMetrics(enriched, w.err)
                 IN  /\ log' = log \o w.written
                     /\ lastResp' = Resp("single", body, status, TRUE, <<msg>>, w.err, 0, 0, 0)
                     /\ eventsIngested' = m.ingested
                     /\ kafkaProducerErrors' = m.producerErrors
                     /\ acked' = IF status = StatusAccepted THEN Append(acked, msg) ELSE acked
    /\ handled' = handled + 1
    /\ UNCHANGED <<stopVars, detVars, now, serveVars, writerVars>>

\* a bag with one copy of f(s[i]) for every i
BagOfSeq(s) == [x \in Range(s) |-> Count(s, x)]

\* one pass of the loop of IngestEventBatch over batch.Events[i]
PrepareEvent(e, t) ==
    LET enriched == SetHost(Validate(e, t))
        json == ToJSON(enriched)
    IN  IF ~ValidStruct(enriched)
        THEN [ok |-> FALSE, event |-> enriched, labels |-> <<Label(enriched, "validation_error")>>,
              msg |-> Message(enriched, <<>>)]
        ELSE IF json.err
        THEN [ok |-> FALSE, event |-> enriched, labels |-> <<Label(enriched, "serialization_error")>>,
              msg |-> Message(enriched, <<>>)]
        ELSE [ok |-> TRUE, event |-> enriched, labels |-> <<>>,
              msg |-> Message(enriched, json.bytes)]

\* the loop with each message put in front of the earlier ones
PrepareBatchReversed(events, t) ==
    LET res == [i \in 1..Len(events) |-> PrepareEvent(events[i], t)]
        good == SelectSeq(res, LAMBDA r : r.ok)
        bad == SelectSeq(res, LAMBDA r : ~r.ok)
    IN  [events |-> [i \in 1..Len(res) |-> res[i].event],
         messages |-> [i \in 1..Len(good) |-> good[Len(good) + 1 - i].msg],
         successCount |-> Len(good),
         errorCount |-> Len(bad),
         errLabels |-> [i \in 1..Len(bad) |-> bad[i].labels[1]]]

\* the loop counting every event as an error as well
PrepareBatchErrorsAll(events, t) ==
    LET res == [i \in 1..Len(events) |-> PrepareEvent(events[i], t)]
        good == SelectSeq(res, LAMBDA r : r.ok)
        bad == SelectSeq(res, LAMBDA r : ~r.ok)
    IN  [events |-> [i \in 1..Len(res) |-> res[i].event],
         messages |-> [i \in 1..Len(good) |-> good[i].msg],
         successCount |-> Len(good),
         errorCount |-> Len(res),
         errLabels |-> [i \in 1..Len(bad) |-> bad[i].labels[1]]]

\* the loop: the messages in request order, the two counts, the counters
PrepareBatch(events, t) ==
    LET res == [i \in 1..Len(events) |-> PrepareEvent(events[i], t)]
        good == SelectSeq(res, LAMBDA r : r.ok)
        bad == SelectSeq(res, LAMBDA r : ~r.ok)
    IN  [events |-> [i \in 1..Len(res) |-> res[i].event],
         messages |-> [i \in 1..Len(good) |-> good[i].msg],
         successCount |-> Len(good),
         errorCount |-> Len(bad),
         errLabels |-> [i \in 1..Len(bad) |-> bad[i].labels[1]]]

\* the status IngestEventBatch answers once WriteMessages has returned
BatchWriteStatus(err) ==
    IF err THEN StatusServiceUnavailable ELSE StatusAccepted

\* BatchSuccessLabels leaving out the first event
BatchSuccessLabelsButFirst(events) == [i \in 1..(Len(events) - 1) |-> Label(events[i + 1], "success")]

\* "Update metrics for successful events": one increment per event of the request
BatchSuccessLabels(events) == [i \in 1..Len(events) |-> Label(events[i], "success")]

(***************************************************************************)
(* EventHandler.IngestEventBatch: POST /api/v1/events/batch                *)
(***************************************************************************)
IngestEventBatchOn(body) ==
    /\ handled < MaxRequests
    /\  IF ~body.ok \/ ~BatchValid(body)
        THEN \* Invalid JSON, or Validation failed
             /\ lastResp' = Resp("batch", body, StatusBadRequest, FALSE, <<>>, FALSE, 0, 0, 0)
             /\ UNCHANGED <<log, acked, eventsIngested, kafkaProducerErrors>>
        ELSE LET p == PrepareBatch(body.events, now)
             IN  \E w \in WriteOutcomes(p.messages) :
                 LET status == BatchWriteStatus(w.err)
                     afterLoop == eventsIngested (+) BagOfSeq(p.errLabels)
                 IN  /\ log' = log \o w.written
                     /\ kafkaProducerErrors' = kafkaProducerErrors + (IF w.err THEN 1 ELSE 0)
                     /\ eventsIngested' =
                            IF w.err THEN afterLoop
                            ELSE afterLoop (+) BagOfSeq(BatchSuccessLabels(p.events))
                     /\ lastResp' =
                            IF w.err
                            THEN Resp("batch", body, status, TRUE, p.messages, TRUE, 0, 0, 0)
                            ELSE Resp("batch", body, status, TRUE, p.messages, FALSE,
                                      Len(body.events), p.successCount, p.errorCount)
                     /\ acked' = IF status = StatusAccepted THEN acked \o p.messages ELSE acked
    /\ handled' = handled + 1
    /\ UNCHANGED <<stopVars, detVars, now, serveVars, writerVars>>

\* time passes
Tick ==
    /\ now < MaxNow
    /\ now' = now + 1
    /\ UNCHANGED <<stopVars, detVars, log, ingestVars, writerVars>>

(***************************************************************************)
(* The ingestion service as a process: main, the HTTP server and its       *)
(* handlers, each running on its own connection.  A handler reads the      *)
(* request body (bounded by ReadTimeout), validates and enriches without   *)
(* delay, and then waits in WriteMessages (bounded by the timeout of its   *)
(* context).                                                               *)
(***************************************************************************)
IdleConn ==
    [pc |-> "idle", kind |-> "none", body |-> [ok |-> FALSE], start |-> 0,
     callAt |-> 0, msgs |-> <<>>, events |-> <<>>, counts |-> <<0, 0>>, onClosed |-> FALSE]

NoReady == [status |-> 0, reachable |-> FALSE]

InFlight == {c \in 1..MaxConns : conns[c].pc # "idle"}

\* the requests of SpecServe
ServeSingleBodies ==
    {[ok |-> FALSE, event |-> ZeroEvent], [ok |-> TRUE, event |-> V1],
     [ok |-> TRUE, event |-> BadService]}
ServeBatchBodies == {BatchBody(<<V1, V2>>)}

\* WriteMessages on the shared kafka.Writer: io.ErrClosedPipe once the writer is
\* closed, nil without messages; otherwise the call succeeds when the brokers
\* answer and fails (possibly after a partial write) when they do not.  The
\* writer keeps nothing of a failed call.
WriteResults(msgs, closed) ==
    IF closed THEN {[err |-> TRUE, written |-> <<>>]}
    ELSE IF msgs = <<>> THEN {[err |-> FALSE, written |-> <<>>]}
    ELSE {w \in WriteOutcomes(msgs) : w.err = ~reachable}

\* the brokers stop answering, and answer again
LogFails ==
    /\ reachable
    /\ reachable' = FALSE
    /\ UNCHANGED <<stopVars, detVars, now, log, handled, lastResp, acked, eventsIngested, kafkaProducerErrors,
                   srvpc, sigAt, writerClosed, conns, lastReady, writerVars>>

LogRecovers ==
    /\ ~reachable
    /\ reachable' = TRUE
    /\ UNCHANGED <<stopVars, detVars, now, log, handled, lastResp, acked, eventsIngested, kafkaProducerErrors,
                   srvpc, sigAt, writerClosed, conns, lastReady, writerVars>>

\* GET /ready: kafkaWriter.WriteMessages(context.Background()) without messages
Ready ==
    /\ srvpc = "serving"
    /\ \E w \in WriteResults(<<>>, writerClosed) :
         lastReady' = [status |-> IF ~w.err THEN StatusOK ELSE StatusServiceUnavailable,
                       reachable |-> reachable]
    /\ UNCHANGED <<stopVars, detVars, now, log, handled, lastResp, acked, eventsIngested, kafkaProducerErrors,
                   reachable, srvpc, sigAt, writerClosed, conns, writerVars>>

\* the server accepts a connection and starts to read a request (the
\* connections are alike: the request takes the first idle one)
AcceptRequest(c) ==
    /\ srvpc = "serving"
    /\ conns[c].pc = "idle"
    /\ \A d \in 1..(c - 1) : conns[d].pc # "idle"
    /\ handled + Cardinality(InFlight) < MaxRequests
    /\ \E r \in {[kind |-> "single", body |-> b] : b \in ServeSingleBodies}
               \cup {[kind |-> "batch", body |-> b] : b \in ServeBatchBodies} :
         conns' = [conns EXCEPT ![c] = [IdleConn EXCEPT !.pc = "reading", !.kind = r.kind,
                                                        !.body = r.body, !.start = now]]
    /\ UNCHANGED <<stopVars, detVars, now, log, handled, lastResp, acked, eventsIngested, kafkaProducerErrors,
                   reachable, srvpc, sigAt, writerClosed, lastReady, writerVars>>

\* the answer of a handler that returns before the produce call
Refuse(c, status, label) ==
    /\ lastResp' = Resp(conns[c].kind, conns[c].body, status, FALSE, <<>>, FALSE, 0, 0, 0)
    /\ eventsIngested' = eventsIngested (+) BagOfSeq(label)
    /\ handled' = handled + 1
    /\ conns' = [conns EXCEPT ![c] = IdleConn]

\* the handler has what it sends and calls WriteMessages
CallWrite(c, msgs, events, counts, labels) ==
    /\ conns' = [conns EXCEPT ![c] = [@ EXCEPT !.pc = "writing", !.callAt = now,
                                                !.msgs = msgs, !.events = events,
                                                !.counts = counts,
                                                !.onClosed = writerClosed]]
    /\ eventsIngested' = eventsIngested (+) BagOfSeq(labels)
    /\ UNCHANGED <<stopVars, detVars, lastResp, handled>>

\* IngestEvent and IngestEventBatch from the decoding of the body to the call
\* of WriteMessages
HandleRequest(c) ==
    /\ srvpc # "exited"
    /\ conns[c].pc = "reading"
    /\ LET body == conns[c].body
       IN  IF conns[c].kind = "single"
           THEN LET event == body.event
                    enriched == SetHost(Validate(event, now))
                    json == ToJSON(enriched)
                IN  IF ~body.ok
                    THEN Refuse(c, StatusBadRequest, <<<<"unknown", "unknown", "error">>>>)
                    ELSE IF ~ValidStruct(event)
                    THEN Refuse(c, StatusBadRequest, <<Label(event, "validation_error")>>)
                    ELSE IF json.err
                    THEN Refuse(c, StatusInternalServerError,
                                <<Label(enriched, "serialization_error")>>)
                    ELSE CallWrite(c, <<Message(enriched, json.bytes)>>, <<enriched>>,
                                   <<0, 0>>, <<>>)
           ELSE IF ~body.ok \/ ~BatchValid(body)
                THEN Refuse(c, StatusBadRequest, <<>>)
                ELSE LET p == PrepareBatch(body.events, now)
                     IN  CallWrite(c, p.messages, p.events,
                                   <<p.successCount, p.errorCount>>, p.errLabels)
    /\ UNCHANGED <<stopVars, detVars, now, log, acked, kafkaProducerErrors,
                   reachable, srvpc, sigAt, writerClosed, lastReady, writerVars>>

\* WriteMessages returns: the rest of IngestEvent and IngestEventBatch
WriteReturns(c) ==
    /\ srvpc # "exited"
    /\ conns[c].pc = "writing"
    /\ LET r == conns[c]
       IN  \E w \in WriteResults(r.msgs, r.onClosed) :
           /\ log' = log \o w.written
           /\ IF r.kind = "single"
              THEN LET status == SingleWriteStatus(w.err)
                       m == SingleWriteMetrics(r.events[1], w.err)
                   IN  /\ lastResp' = [Resp("single", r.body, status, TRUE, r.msgs, w.err, 0, 0, 0)
                                          EXCEPT !.at = r.callAt]
                       /\ eventsIngested' = m.ingested
                       /\ kafkaProducerErrors' = m.producerErrors
                       /\ acked' = IF status = StatusAccepted THEN acked \o r.msgs ELSE acked
              ELSE LET status == BatchWriteStatus(w.err)
                   IN  /\ lastResp' =
                              [(IF w.err
                                THEN Resp("batch", r.body, status, TRUE, r.msgs, TRUE, 0, 0, 0)
                                ELSE Resp("batch", r.body, status, TRUE, r.msgs, FALSE,
                                          Len(r.body.events), r.counts[1], r.counts[2]))
                                  EXCEPT !.at = r.callAt]
                       /\ eventsIngested' =
                              IF w.err THEN eventsIngested
                              ELSE eventsIngested (+) BagOfSeq(BatchSuccessLabels(r.events))
                       /\ kafkaProducerErrors' = kafkaProducerErrors + (IF w.err THEN 1 ELSE 0)
                       /\ acked' = IF status = StatusAccepted THEN acked \o r.msgs ELSE acked
    /\ handled' = handled + 1
    /\ conns' = [conns EXCEPT ![c] = IdleConn]
    /\ UNCHANGED <<stopVars, detVars, now, reachable, srvpc, sigAt, writerClosed, lastReady, writerVars>>

\* sig := <-quit; server.Shutdown(ctx) closes the listeners
SigTerm ==
    /\ srvpc = "serving"
    /\ srvpc' = "draining"
    /\ sigAt' = now
    /\ UNCHANGED <<stopVars, detVars, now, log, handled, lastResp, acked, eventsIngested, kafkaProducerErrors,
                   reachable, writerClosed, conns, lastReady, writerVars>>

\* DrainOver without waiting for the requests in flight
DrainOverAtOnce == TRUE

\* server.Shutdown returns: every connection is idle, or the context is done
DrainOver == InFlight = {} \/ now >= sigAt + ShutdownTimeout

ShutdownReturns ==
    /\ srvpc = "draining"
    /\ DrainOver
    /\ srvpc' = "closing"
    /\ UNCHANGED <<stopVars, detVars, now, log, handled, lastResp, acked, eventsIngested, kafkaProducerErrors,
                   reachable, sigAt, writerClosed, conns, lastReady, writerVars>>

\* kafkaWriter.Close()
CloseWriter ==
    /\ srvpc = "closing"
    /\ writerClosed' = TRUE
    /\ srvpc' = "closed"
    /\ UNCHANGED <<stopVars, detVars, now, log, handled, lastResp, acked, eventsIngested, kafkaProducerErrors,
                   reachable, sigAt, conns, lastReady, writerVars>>

\* main returns: the process and its handlers end
IngestionExit ==
    /\ srvpc = "closed"
    /\ srvpc' = "exited"
    /\ conns' = [c \in 1..MaxConns |-> IdleConn]
    /\ UNCHANGED <<stopVars, detVars, now, log, handled, lastResp, acked, eventsIngested, kafkaProducerErrors,
                   reachable, sigAt, writerClosed, lastReady, writerVars>>

\* the instant by which the step a connection waits for is over
Deadline(r) ==
    IF r.pc = "reading" THEN r.start + ReadTimeout
    ELSE r.callAt + (IF r.kind = "single" THEN SingleWriteTimeout ELSE BatchWriteTimeout)

\* the clock advances while a request is in flight (the time in which the
\* service is idle is left out), never past a deadline that is still pending
TimePassesUntil(max) ==
    /\ now + TimeStep <= max
    /\ InFlight # {}
    /\ \A c \in InFlight : now + TimeStep <= Deadline(conns[c])
    /\ srvpc = "draining" => now + TimeStep <= sigAt + ShutdownTimeout
    /\ now' = now + TimeStep
    /\ UNCHANGED <<stopVars, detVars, log, ingestVars, writerVars>>

TimePasses == TimePassesUntil(MaxServeNow)

DrainTimePasses == TimePassesUntil(MaxDrainNow)

(***************************************************************************)
(* The storage writer.  One partition of the events topic, read by the     *)
(* consumer group storage-writers.                                         *)
(***************************************************************************)

\* a record of the topic that is no JSON event
Garbage == [key |-> "", value |-> [raw |-> "not-json"], time |-> 0]

\* the record the ingestion service produces for event e accepted at instant t
Produced(e, t) ==
    LET enriched == SetHost(Validate(e, t))
    IN  Message(enriched, ToJSON(enriched).bytes)

\* json.Unmarshal(msg.Value, &event): a key that is absent leaves the zero value
Field(bytes, k, zero) == IF k \in DOMAIN bytes THEN bytes[k] ELSE zero

Unmarshal(bytes) ==
    IF "raw" \in DOMAIN bytes
    THEN [err |-> TRUE, event |-> ZeroEvent]
    ELSE [err |-> FALSE,
          event |-> [timestamp |-> Field(bytes, "timestamp", 0),
                     service |-> Field(bytes, "service", ""),
                     level |-> Field(bytes, "level", ""),
                     message |-> Field(bytes, "message", ""),
                     metadata |-> IF "metadata" \in DOMAIN bytes
                                  THEN [isNil |-> FALSE, kv |-> bytes["metadata"]]
                                  ELSE NilMetadata,
                     trace_id |-> Field(bytes, "trace_id", ""),
                     span_id |-> Field(bytes, "span_id", ""),
                     ingested_at |-> Field(bytes, "ingested_at", 0),
                     host |-> Field(bytes, "host", "")]]

\* kafka.ReaderConfig{GroupID, StartOffset: kafka.LastOffset}: the reader resumes
\* at the committed offset of the group; without one it starts at the end
StartPosition == IF committed = -1 THEN Len(log) ELSE committed

\* reader.CommitMessages(ctx, msg): on success the group's offset is past msg
CommitMessages(off, ok) == IF ok THEN off + 1 ELSE committed

NoMsg == [off |-> -1, ok |-> FALSE, event |-> ZeroEvent]

\* no writeBatch call in the last step
NoFlush == [events |-> <<>>, outcome |-> "none", failAt |-> 0, tx |-> "none", stmt |-> "none"]

Up == proc = "up"

\* a record arrives in the topic
Produce ==
    /\ Len(log) < MaxLog
    /\ \E m \in {Produced(Event(Len(log) + 1, "api", "INFO", "ok"), now), Garbage} :
        log' = Append(log, m)
    /\ flushed' = NoFlush
    /\ UNCHANGED <<stopVars, detVars, now, exitCode, exitCause, ingestVars, proc, restarts, ctxDone, mainpc, committed, pos, fpc, cur,
                   batchCh, bwpc, batch, rows>>

(***************************************************************************)
(* StorageWriter.Start: the fetch loop                                     *)
(***************************************************************************)
\* case <-ctx.Done(), or FetchMessage returns context.Canceled
FetchCancelled ==
    /\ Up /\ fpc = "select" /\ ctxDone
    /\ fpc' = "done"
    /\ flushed' = NoFlush
    /\ UNCHANGED <<stopVars, detVars, now, exitCode, exitCause, log, ingestVars, proc, restarts, ctxDone, mainpc, committed, pos,
                   cur, batchCh, bwpc, batch, rows>>

\* FetchError ending the fetch loop
FetchErrorReturns ==
    /\ Up /\ fpc = "select" /\ ~ctxDone
    /\ pos \notin fetchErrs /\ pos < MaxFetchErrors
    /\ fetchErrs' = fetchErrs \cup {pos}
    /\ fpc' = "done"
    /\ flushed' = NoFlush
    /\ UNCHANGED <<dbClosed, detVars, now, exitCode, exitCause, log, ingestVars, proc, restarts, ctxDone,
                   mainpc, committed, pos, cur, batchCh, bwpc, batch, rows>>

\* default: FetchMessage returns an error that is not context.Canceled: the
\* error is logged, the loop sleeps a second and continues
FetchError ==
    /\ Up /\ fpc = "select" /\ ~ctxDone
    /\ pos \notin fetchErrs /\ pos < MaxFetchErrors
    /\ fetchErrs' = fetchErrs \cup {pos}
    /\ fpc' = "select"
    /\ flushed' = NoFlush
    /\ UNCHANGED <<dbClosed, detVars, now, exitCode, exitCause, log, ingestVars, proc, restarts, ctxDone,
                   mainpc, committed, pos, cur, batchCh, bwpc, batch, rows>>

\* FetchMessage passing on the event whether or not the record parses
FetchMessageKeepsBad ==
    /\ Up /\ fpc = "select" /\ ~ctxDone
    /\ pos < Len(log)
    /\ LET msg == log[pos + 1]
           parsed == Unmarshal(msg.value)
       IN  /\ pos' = pos + 1
           /\ cur' = [off |-> pos, ok |-> ~parsed.err, event |-> parsed.event]
           /\ fpc' = "send"
    /\ flushed' = NoFlush
    /\ UNCHANGED <<stopVars, detVars, now, exitCode, exitCause, log, ingestVars, proc, restarts, ctxDone,
                   mainpc, committed, batchCh, bwpc, batch, rows>>

\* default: FetchMessage returns the next record, json.Unmarshal parses it
FetchMessage ==
    /\ Up /\ fpc = "select" /\ ~ctxDone
    /\ pos < Len(log)
    /\ LET msg == log[pos + 1]
           parsed == Unmarshal(msg.value)
       IN  /\ pos' = pos + 1
           /\ cur' = [off |-> pos, ok |-> ~parsed.err, event |-> parsed.event]
           /\ fpc' = IF parsed.err THEN "commit" ELSE "send"
    /\ flushed' = NoFlush
    /\ UNCHANGED <<stopVars, detVars, now, exitCode, exitCause, log, ingestVars, proc, restarts, ctxDone, mainpc, committed,
                   batchCh, bwpc, batch, rows>>

\* case sw.batchCh <- &event
Enqueue ==
    /\ Up /\ fpc = "send"
    /\ Len(batchCh) < ChanCap
    /\ batchCh' = Append(batchCh, cur.event)
    /\ fpc' = "commit"
    /\ flushed' = NoFlush
    /\ UNCHANGED <<stopVars, detVars, now, exitCode, exitCause, log, ingestVars, proc, restarts, ctxDone, mainpc, committed, pos,
                   cur, bwpc, batch, rows>>

\* case <-time.After(5 * time.Second): the channel stayed full
DropEvent ==
    /\ Up /\ fpc = "send"
    /\ Len(batchCh) = ChanCap
    /\ fpc' = "commit"
    /\ flushed' = NoFlush
    /\ UNCHANGED <<stopVars, detVars, now, exitCode, exitCause, log, ingestVars, proc, restarts, ctxDone, mainpc, committed, pos,
                   cur, batchCh, bwpc, batch, rows>>

\* sw.reader.CommitMessages(ctx, msg), which may fail (the error is logged)
CommitOffset ==
    /\ Up /\ fpc = "commit"
    /\ \E ok \in BOOLEAN : committed' = CommitMessages(cur.off, ok)
    /\ fpc' = "select"
    /\ cur' = NoMsg
    /\ flushed' = NoFlush
    /\ UNCHANGED <<stopVars, detVars, now, exitCode, exitCause, log, ingestVars, proc, restarts, ctxDone, mainpc, pos,
                   batchCh, bwpc, batch, rows>>

(***************************************************************************)
(* StorageWriter.writeBatch.  outcome says how the transaction ends:       *)
(* "begin_failed", "prepare_failed", "commit_failed" or "ok"; failAt is    *)
(* the first event whose insert the database rejects (0: none).  Postgres  *)
(* aborts a transaction at the first failed statement: every later         *)
(* statement fails too and the commit is refused.                          *)
(***************************************************************************)
FlushOutcomes(events) ==
    {[outcome |-> o, failAt |-> 0] : o \in {"begin_failed", "prepare_failed", "commit_failed", "ok"}}
        \cup {[outcome |-> "commit_failed", failAt |-> i] : i \in 1..Len(events)}

\* the outcomes of writeBatch on the handle as it is: after db.Close() BeginTx
\* returns "sql: database is closed"
DbOutcomes(events) ==
    IF dbClosed THEN {[outcome |-> "begin_failed", failAt |-> 0]} ELSE FlushOutcomes(events)

\* the rows the events table holds after writeBatch(events)
RowsAfter(events, o) ==
    IF o.outcome = "ok" THEN rows \o events ELSE rows

\* Deferred registering nothing after BeginTx
DeferredNoRollback(o) ==
    IF o.outcome \in {"begin_failed", "prepare_failed"} THEN <<>>
    ELSE <<"stmt.Close">>

\* the calls writeBatch has deferred when it returns with outcome o: it returns
\* on a BeginTx error before any defer, registers `defer tx.Rollback()` once
\* the transaction is open and `defer stmt.Close()` once the statement is
\* prepared
Deferred(o) ==
    IF o.outcome = "begin_failed" THEN <<>>
    ELSE IF o.outcome = "prepare_failed" THEN <<"tx.Rollback">>
    ELSE <<"tx.Rollback", "stmt.Close">>

\* the transaction after writeBatch has returned and its deferred calls have
\* run: tx.Commit() ends the transaction whether it succeeds or fails, and
\* tx.Rollback() ends one that is still open
TxAtReturn(o) ==
    IF o.outcome = "begin_failed" THEN "none"
    ELSE IF o.outcome = "ok" THEN "committed"
    ELSE IF o.outcome = "commit_failed" THEN "rolled_back"
    ELSE IF "tx.Rollback" \in Range(Deferred(o)) THEN "rolled_back"
    ELSE "open"

\* the prepared statement after writeBatch has returned
StmtAtReturn(o) ==
    IF o.outcome \in {"begin_failed", "prepare_failed"} THEN "none"
    ELSE IF "stmt.Close" \in Range(Deferred(o)) THEN "closed"
    ELSE "open"

writeBatch(events, o) ==
    /\ rows' = RowsAfter(events, o)
    /\ flushed' = [events |-> events, outcome |-> o.outcome, failAt |-> o.failAt,
                   tx |-> TxAtReturn(o), stmt |-> StmtAtReturn(o)]

(***************************************************************************)
(* StorageWriter.batchWriter                                               *)
(***************************************************************************)
\* BatchAppend putting the event in front
BatchPrepend(b, e) == <<e>> \o b

\* BatchAppend losing the event
BatchAppendLost(b, e) == b

\* batch = append(batch, event)
BatchAppend(b, e) == Append(b, e)

\* BatchFull with the batch allowed one event more
BatchFullOffByOne(b) == Len(b) > BatchTarget

\* "Write when batch is full": len(batch) >= 100
BatchFull(b) == Len(b) >= BatchTarget

\* case event := <-sw.batchCh
ReceiveEvent ==
    /\ Up /\ bwpc = "run"
    /\ batchCh # <<>>
    /\ batchCh' = Tail(batchCh)
    /\ LET appended == BatchAppend(batch, Head(batchCh))
       IN  IF BatchFull(appended)
           THEN /\ \E o \in DbOutcomes(appended) : writeBatch(appended, o)
                /\ batch' = <<>>
           ELSE /\ batch' = appended
                /\ rows' = rows
                /\ flushed' = NoFlush
    /\ UNCHANGED <<stopVars, detVars, now, exitCode, exitCause, log, ingestVars, proc, restarts, ctxDone, mainpc, committed, pos,
                   fpc, cur, bwpc>>

\* case <-ticker.C
FlushTick ==
    /\ Up /\ bwpc = "run"
    /\ Len(batch) > 0
    /\ \E o \in DbOutcomes(batch) : writeBatch(batch, o)
    /\ batch' = <<>>
    /\ UNCHANGED <<stopVars, detVars, now, exitCode, exitCause, log, ingestVars, proc, restarts, ctxDone, mainpc, committed, pos,
                   fpc, cur, batchCh, bwpc>>

\* FlushOnCancel writing the remaining batch and staying in the loop
FlushOnCancelStays ==
    /\ Up /\ bwpc = "run"
    /\ ctxDone
    /\ IF Len(batch) > 0
       THEN \E o \in DbOutcomes(batch) : writeBatch(batch, o)
       ELSE /\ rows' = rows
            /\ flushed' = NoFlush
    /\ batch' = <<>>
    /\ bwpc' = "run"
    /\ UNCHANGED <<stopVars, detVars, now, exitCode, exitCause, log, ingestVars, proc, restarts, ctxDone, mainpc, committed, pos,
                   fpc, cur, batchCh>>

\* case <-ctx.Done(): write the remaining batch and return
FlushOnCancel ==
    /\ Up /\ bwpc = "run"
    /\ ctxDone
    /\ IF Len(batch) > 0
       THEN \E o \in DbOutcomes(batch) : writeBatch(batch, o)
       ELSE /\ rows' = rows
            /\ flushed' = NoFlush
    /\ batch' = <<>>
    /\ bwpc' = "done"
    /\ UNCHANGED <<stopVars, detVars, now, exitCode, exitCause, log, ingestVars, proc, restarts, ctxDone, mainpc, committed, pos,
                   fpc, cur, batchCh>>

(***************************************************************************)
(* main of the storage writer, and the process                             *)
(***************************************************************************)
\* what is left of a process that has ended
ProcessGone ==
    /\ proc' = "down"
    /\ mainpc' = "exited"
    /\ fpc' = "done"
    /\ bwpc' = "done"
    /\ cur' = NoMsg
    /\ batchCh' = <<>>
    /\ batch' = <<>>
    /\ dbClosed' = FALSE

\* case sig := <-quit: cancel()
ShutdownSignal ==
    /\ Up /\ mainpc = "wait"
    /\ ctxDone' = TRUE
    /\ mainpc' = "sleep"
    /\ flushed' = NoFlush
    /\ UNCHANGED <<stopVars, detVars, now, exitCode, exitCause, log, ingestVars, proc, restarts, committed, pos, fpc, cur,
                   batchCh, bwpc, batch, rows>>

\* time.Sleep(2 * time.Second) is over and main returns: the deferred cancel()
\* and writer.Close() run; Close closes sw.shutdown, the reader and the
\* database handle, whatever the two goroutines are doing
StorageClose ==
    /\ Up /\ mainpc = "sleep"
    /\ mainpc' = "closed"
    /\ dbClosed' = TRUE
    /\ flushed' = NoFlush
    /\ UNCHANGED <<fetchErrs, detVars, now, exitCode, exitCause, log, ingestVars, proc, restarts, ctxDone,
                   committed, pos, fpc, cur, batchCh, bwpc, batch, rows>>

\* main has returned: the process ends, with the goroutines still running
MainExit ==
    /\ Up /\ mainpc = "closed"
    /\ ProcessGone
    /\ exitCode' = 0
    /\ exitCause' = "clean"
    /\ flushed' = NoFlush
    /\ UNCHANGED <<fetchErrs, detVars, now, log, ingestVars, restarts, ctxDone, committed, pos, rows>>

\* the process is killed
Kill ==
    /\ Up
    /\ ProcessGone
    /\ exitCode' = -1
    /\ exitCause' = "killed"
    /\ flushed' = NoFlush
    /\ UNCHANGED <<fetchErrs, detVars, now, log, ingestVars, restarts, ctxDone, committed, pos, rows>>

\* the process is started again: NewStorageWriter, Start
Restart ==
    /\ proc = "down"
    /\ restarts < MaxRestarts
    /\ restarts' = restarts + 1
    /\ proc' = "up"
    /\ mainpc' = "wait"
    /\ ctxDone' = FALSE
    /\ pos' = StartPosition
    /\ fpc' = "select"
    /\ bwpc' = "run"
    /\ cur' = NoMsg
    /\ batchCh' = <<>>
    /\ batch' = <<>>
    /\ flushed' = NoFlush
    /\ exitCode' = -1
    /\ exitCause' = "none"
    /\ dbClosed' = FALSE
    /\ UNCHANGED <<fetchErrs, detVars, now, log, ingestVars, committed, rows>>

\* the process is started and main ends in log.Fatal: config.Load fails, or
\* NewStorageWriter fails on sql.Open or on the ping of the database
StartFails ==
    /\ proc = "down"
    /\ \E cause \in {"config_error", "store_unreachable"} : exitCause' = cause
    /\ exitCode' = FatalExitCode
    /\ flushed' = NoFlush
    /\ UNCHANGED <<stopVars, detVars, now, log, ingestVars, proc, restarts, ctxDone, mainpc, committed, pos,
                   fpc, cur, batchCh, bwpc, batch, rows>>

(***************************************************************************)
(* The sliding-window detector.  It consumes the events topic, folds each  *)
(* event into the bucket of its service and timestamp, scores closed       *)
(* buckets with the model, classifies, deduplicates and publishes anomaly  *)
(* records.  Instants are in seconds, scores and the threshold in          *)
(* hundredths.  Of the accumulator only the event and error counts are     *)
(* kept: the other features reach the record through the score, which the  *)
(* model returns and is drawn from Scores here.                            *)
(***************************************************************************)
WindowSize == 300             \* WINDOW_SIZE_MINUTES, 5 minutes
MaxSkew == 120                \* max_skew, 2 minutes
DedupCooldown == 600          \* DEDUP_COOLDOWN_SECONDS
AnomalyThreshold == -70       \* ANOMALY_THRESHOLD
LruCap == 2                   \* open buckets kept per service, 12 scaled down

DetServices == {"api", "db"}
EventTimes == {10, 310}       \* timestamps of the events consumed
DetLevels == {"INFO", "ERROR"}
Scores == {-110, -90, -71, -70}

\* bucket(t) = t - (t mod 5min)
Bucket(t) == t - (t % WindowSize)

\* timestamps one bucket apart, one bucket more than the cap
SpreadEventTimes == {10 + WindowSize * k : k \in 0..LruCap}

BucketStarts == {Bucket(t) : t \in EventTimes \cup SpreadEventTimes}

NoBucket == [count |-> 0, errors |-> 0]

\* the buckets a service holds
OpenBuckets(w) == {b \in DOMAIN w : w[b].count > 0}

SetMin(S) == CHOOSE x \in S : \A y \in S : x <= y

\* the accumulator with one more event
Accumulate(acc, level) ==
    [count |-> acc.count + 1,
     errors |-> acc.errors + (IF level \in {"ERROR", "CRITICAL"} THEN 1 ELSE 0)]

\* AddEvent keeping every bucket
AddEventNoCap(w, ts, level) ==
    [w EXCEPT ![Bucket(ts)] = Accumulate(@, level)]

\* the event is folded into its bucket; beyond the cap the oldest bucket goes
AddEvent(w, ts, level) ==
    LET added == [w EXCEPT ![Bucket(ts)] = Accumulate(@, level)]
    IN  IF Cardinality(OpenBuckets(added)) > LruCap
        THEN [added EXCEPT ![SetMin(OpenBuckets(added))] = NoBucket]
        ELSE added

\* error_rate = (ERROR+CRITICAL count) / event_count, as a fraction
ErrorRate(acc) == [num |-> acc.errors, den |-> acc.count]

\* rate > pct / 100
RateAbove(rate, pct) == rate.num * 100 > pct * rate.den

\* the rules with the row of HIGH tried before the row of CRITICAL
SeverityHighFirst(score, rate) ==
    IF score < -85 \/ RateAbove(rate, 30) THEN "HIGH"
    ELSE IF score < -100 \/ RateAbove(rate, 50) THEN "CRITICAL"
    ELSE IF score < -70 \/ RateAbove(rate, 15) THEN "MEDIUM"
    ELSE IF score < AnomalyThreshold THEN "LOW"
    ELSE "NONE"

\* the classification rules, evaluated in order; "NONE": no anomaly
Severity(score, rate) ==
    IF score < -100 \/ RateAbove(rate, 50) THEN "CRITICAL"
    ELSE IF score < -85 \/ RateAbove(rate, 30) THEN "HIGH"
    ELSE IF score < -70 \/ RateAbove(rate, 15) THEN "MEDIUM"
    ELSE IF score < AnomalyThreshold THEN "LOW"
    ELSE "NONE"

\* what the model and the publish do for one bucket: the inference fails, or
\* it returns a score; the publish succeeds, or fails after its retries, and
\* then the timestamp of the last alert may or may not have been set
InferenceError == [err |-> TRUE, score |-> 0, published |-> FALSE, stamped |-> FALSE]

ScoreOutcomes ==
    {InferenceError}
    \cup {[err |-> FALSE, score |-> s, published |-> TRUE, stamped |-> TRUE] : s \in Scores}
    \cup {[err |-> FALSE, score |-> s, published |-> FALSE, stamped |-> st] :
            s \in Scores, st \in BOOLEAN}

\* no cooldown
InCooldownNever(last, t) == FALSE

\* the alert is within the cooldown of the last one of its service
InCooldown(last, t) == last >= 0 /\ t - last < DedupCooldown

\* every bucket is long enough
EnoughEventsAlways(acc) == TRUE

\* the bucket is long enough to be scored
EnoughEvents(acc) == acc.count >= MinEventsPerWindow

\* the detector's maps and outputs, as one record
DetState == [windows |-> windows, lastAlert |-> lastAlert, anomalies |-> anomalies,
             scorings |-> scorings, suppressed |-> suppressed]

\* one bucket is closed at instant t: skipped if it is too short, else scored,
\* classified, deduplicated and published; in every case it is discarded
CloseBucket(d, svc, b, out, t) ==
    LET acc == d.windows[svc][b]
        gone == [d EXCEPT !.windows[svc][b] = NoBucket]
        sev == Severity(out.score, ErrorRate(acc))
        rec == [service |-> svc, time |-> b + WindowSize, score |-> out.score,
                threshold |-> AnomalyThreshold, severity |-> sev,
                event_count |-> acc.count, errors |-> acc.errors, at |-> t]
    IN  IF ~EnoughEvents(acc) THEN gone
        ELSE LET scored == [gone EXCEPT !.scorings = Append(@, <<svc, b>>)]
             IN  IF out.err \/ sev = "NONE" THEN scored
                 ELSE IF InCooldown(d.lastAlert[svc], t)
                 THEN [scored EXCEPT !.suppressed = @ + 1]
                 ELSE [scored EXCEPT
                         !.anomalies = IF out.published THEN Append(@, rec) ELSE @,
                         !.lastAlert[svc] = IF out.stamped THEN t ELSE @]

\* the buckets among bs that the model is asked to score
Scorable(w, bs) == {b \in bs : EnoughEvents(w[b])}

\* the buckets of bs are closed, oldest first; outs holds what the model and
\* the publish do for those that are scored
RECURSIVE CloseAll(_, _, _, _, _)
CloseAll(d, svc, bs, outs, t) ==
    IF bs = {} THEN d
    ELSE LET b == SetMin(bs)
             out == IF b \in DOMAIN outs THEN outs[b] ELSE InferenceError
         IN  CloseAll(CloseBucket(d, svc, b, out, t), svc, bs \ {b}, outs, t)

SetDetState(d) ==
    /\ windows' = d.windows
    /\ lastAlert' = d.lastAlert
    /\ anomalies' = d.anomalies
    /\ scorings' = d.scorings
    /\ suppressed' = d.suppressed

\* the earlier buckets of the service that an event in bucket b closes: those
\* that have had enough events
ClosedByEvent(w, b) == {c \in OpenBuckets(w) : c < b /\ EnoughEvents(w[c])}

\* the buckets of the service whose end is older than max_skew at instant t
AgedOut(w, t) == {c \in OpenBuckets(w) : t - (c + WindowSize) > MaxSkew}

\* the detector consumes one event of the topic
ConsumeFrom(times, levels) ==
    /\ consumed < MaxEvents
    /\ \E svc \in DetServices, ts \in times, level \in levels :
         LET added == [DetState EXCEPT !.windows[svc] = AddEvent(@, ts, level)]
             closing == ClosedByEvent(added.windows[svc], Bucket(ts))
         IN  \E outs \in [Scorable(added.windows[svc], closing) -> ScoreOutcomes] :
                 SetDetState(CloseAll(added, svc, closing, outs, now))
    /\ consumed' = consumed + 1
    /\ UNCHANGED <<now, log, ingestVars, writerVars, stopVars>>

\* events of two buckets, of either kind of level
Consume == ConsumeFrom(EventTimes, DetLevels)

\* events spread over more buckets than the cap
ConsumeSpread == ConsumeFrom(SpreadEventTimes, {"INFO"})

\* the periodic tick, for one service that has a bucket aged out
DetectorTick ==
    /\ \E svc \in DetServices :
         LET closing == AgedOut(windows[svc], now)
         IN  /\ closing # {}
             /\ \E outs \in [Scorable(windows[svc], closing) -> ScoreOutcomes] :
                    SetDetState(CloseAll(DetState, svc, closing, outs, now))
    /\ UNCHANGED <<now, log, ingestVars, writerVars, stopVars, consumed>>

\* wall-clock time passes
DetectorTimePasses ==
    /\ now + DetStep <= MaxDetNow
    /\ now' = now + DetStep
    /\ UNCHANGED <<log, ingestVars, writerVars, stopVars, detVars>>

Init ==
    /\ now = 1
    /\ log = <<>>
    /\ handled = 0
    /\ lastResp = NoResp
    /\ acked = <<>>
    /\ eventsIngested = EmptyBag
    /\ kafkaProducerErrors = 0
    /\ reachable = TRUE
    /\ srvpc = "serving"
    /\ sigAt = 0
    /\ writerClosed = FALSE
    /\ conns = [c \in 1..MaxConns |-> IdleConn]
    /\ lastReady = NoReady
    /\ proc = "up"
    /\ restarts = 0
    /\ ctxDone = FALSE
    /\ mainpc = "wait"
    /\ committed = -1
    /\ pos = 0
    /\ fpc = "select"
    /\ cur = NoMsg
    /\ batchCh = <<>>
    /\ bwpc = "run"
    /\ batch = <<>>
    /\ rows = <<>>
    /\ flushed = NoFlush
    /\ exitCode = -1
    /\ exitCause = "none"
    /\ fetchErrs = {}
    /\ dbClosed = FALSE
    /\ windows = [s \in DetServices |-> [b \in BucketStarts |-> NoBucket]]
    /\ lastAlert = [s \in DetServices |-> -1]
    /\ anomalies = <<>>
    /\ scorings = <<>>
    /\ suppressed = 0
    /\ consumed = 0

IngestEventBatch == \E body \in BatchBodies : IngestEventBatchOn(body)

IngestEventBatchLimits == \E body \in LimitBatchBodies : IngestEventBatchOn(body)

NextIngest == IngestEvent \/ IngestEventBatch \/ Tick

\* the two endpoints, with batches of a few events
SpecIngest == Init /\ [][NextIngest]_vars

NextBatchLimits == IngestEventBatchLimits

\* the batch endpoint at the limits of the batch size
SpecBatchLimits == Init /\ [][NextBatchLimits]_vars

Requests == \E c \in 1..MaxConns : AcceptRequest(c) \/ HandleRequest(c) \/ WriteReturns(c)

NextServe ==
    \/ LogFails \/ LogRecovers \/ Ready
    \/ Requests
    \/ TimePasses

\* the ingestion service with concurrent requests, a log that fails and
\* recovers, and the readiness probe
SpecServe == Init /\ [][NextServe]_vars

NextShutdown ==
    \/ Requests
    \/ SigTerm \/ ShutdownReturns \/ CloseWriter \/ IngestionExit
    \/ DrainTimePasses

\* the ingestion service with concurrent requests and the graceful shutdown
\* of main, on a log that answers
SpecShutdown == Init /\ [][NextShutdown]_vars

NextWriter ==
    \/ Produce
    \/ FetchCancelled \/ FetchMessage \/ Enqueue \/ DropEvent \/ CommitOffset
    \/ ReceiveEvent \/ FlushTick \/ FlushOnCancel
    \/ ShutdownSignal \/ StorageClose \/ MainExit \/ Kill \/ Restart \/ StartFails

\* the storage writer and its topic
SpecWriter == Init /\ [][NextWriter]_vars

NextFlush ==
    \/ Produce
    \/ FetchMessage \/ Enqueue \/ DropEvent \/ CommitOffset
    \/ ReceiveEvent \/ FlushTick

\* the storage writer without shutdown or crash; the batchWriter goroutine
\* keeps running its select loop and its ticker keeps firing
SpecFlush ==
    Init /\ [][NextFlush]_vars /\ WF_vars(ReceiveEvent) /\ WF_vars(FlushTick)

NextStop ==
    \/ Produce
    \/ FetchCancelled \/ FetchMessage \/ FetchError \/ Enqueue \/ DropEvent \/ CommitOffset
    \/ ReceiveEvent \/ FlushTick \/ FlushOnCancel
    \/ ShutdownSignal

\* the two goroutines of the storage writer up to and after the cancellation
\* of main's context, with fetches that fail; every step of the fetch loop is
\* bounded in time (the fetch returns, the send gives up after 5 s, the sleep
\* after an error lasts a second) and the batchWriter's select takes a ready
\* case at random, so neither goroutine stays for ever before a step it can take
SpecStop ==
    /\ Init /\ [][NextStop]_vars
    /\ WF_vars(FetchMessage) /\ WF_vars(FetchCancelled)
    /\ WF_vars(Enqueue \/ DropEvent) /\ WF_vars(CommitOffset)
    /\ WF_vars(FlushOnCancel)

NextDetector == Consume \/ DetectorTick \/ DetectorTimePasses

\* the detector, its input events and its clock
SpecDetector == Init /\ [][NextDetector]_vars

NextDetectorSpread == ConsumeSpread \/ DetectorTick \/ DetectorTimePasses

\* the detector on events of more buckets than a service may hold
SpecDetectorSpread == Init /\ [][NextDetectorSpread]_vars

(***************************************************************************)
(* Claims on the ingestion service                                         *)
(***************************************************************************)
Served(kind) == handled' = handled + 1 /\ lastResp'.kind = kind

\* a request event that breaks one of the rules on service, level, message
FailsRule(e) ==
    \/ e.service = ""
    \/ Len(e.service) > 255
    \/ e.level \notin {"DEBUG", "INFO", "WARN", "ERROR", "CRITICAL"}
    \/ e.message = ""

\* C1: a 202 is answered only after WriteMessages, called with the request's
\* messages, has returned without error; and every event acknowledged with 202
\* has its record in the log (as many records as acknowledgements).
C1_AckedAfterWrite ==
    /\ lastResp.status = 202 => lastResp.called /\ ~lastResp.writeErr
    /\ \A m \in Range(acked) : Count(acked, m) <= Count(log, m)

C1_Witness ==
    /\ handled = 2 /\ lastResp.kind = "batch" /\ lastResp.status = 202
    /\ Len(acked) = 3 /\ Len(log) = 3

\* C6: a single-event request whose body is malformed, or whose event has an
\* empty service, a service longer than 255, a level outside the closed set or
\* an empty message, is answered 400 and nothing is produced to the log for it.
C6_InvalidRejected ==
    [][(Served("single") /\ (~lastResp'.body.ok \/ FailsRule(lastResp'.body.event)))
        => (lastResp'.status = 400 /\ ~lastResp'.called /\ log' = log)]_vars

C6_Witness ==
    /\ lastResp.kind = "single" /\ lastResp.body.ok
    /\ lastResp.body.event.level = "TRACE"
    /\ lastResp.status = 400 /\ Len(log) = 1

\* C7: a single-event request that is valid except that it has no timestamp is
\* accepted: the event is produced with the arrival instant as its timestamp,
\* and the answer is 202 when the produce call succeeds.
C7_NoTimestampAccepted ==
    (/\ lastResp.kind = "single" /\ lastResp.body.ok
     /\ lastResp.body.event.timestamp = 0
     /\ ~FailsRule(lastResp.body.event))
        => /\ lastResp.called
           /\ Len(lastResp.messages) = 1
           /\ lastResp.messages[1].time = lastResp.at
           /\ ~lastResp.writeErr => lastResp.status = 202

\* C8: a batch of 1 to 1000 events, some invalid and the others valid, is
\* answered 202 (when the produce call succeeds): the valid events are produced,
\* error_count is the number of invalid events and success_count the number of
\* produced events.
InvalidIn(events) == {i \in 1..Len(events) : FailsRule(events[i])}

C8_PartialBatchAccepted ==
    (/\ lastResp.kind = "batch" /\ lastResp.body.ok
     /\ Len(lastResp.body.events) \in 1..1000
     /\ InvalidIn(lastResp.body.events) # {}
     /\ InvalidIn(lastResp.body.events) # 1..Len(lastResp.body.events))
        => /\ lastResp.called
           /\ Len(lastResp.messages) =
                  Len(lastResp.body.events) - Cardinality(InvalidIn(lastResp.body.events))
           /\ ~lastResp.writeErr =>
                  /\ lastResp.status = 202
                  /\ lastResp.error_count = Cardinality(InvalidIn(lastResp.body.events))
                  /\ lastResp.success_count = Len(lastResp.messages)

\* C9: a batch request with no event or with more than 1000 events is answered
\* 400 and nothing of it is produced to the log.
C9_BatchSizeRejected ==
    [][(Served("batch") /\ (Len(lastResp'.body.events) = 0 \/ Len(lastResp'.body.events) > 1000))
        => (lastResp'.status = 400 /\ ~lastResp'.called /\ log' = log)]_vars

C9_Witness ==
    /\ lastResp.kind = "batch" /\ lastResp.body.ok
    /\ Len(lastResp.body.events) = 1001
    /\ lastResp.status = 400 /\ Len(log) = 1000

\* C10: when the produce call of a single-event request fails the answer is 503,
\* the status=success counter is unchanged and the producer-error counter is
\* incremented exactly once.
C10_ProduceFailure ==
    [][(Served("single") /\ lastResp'.writeErr)
        => /\ lastResp'.status = 503
           /\ WithStatus(eventsIngested', "success") = WithStatus(eventsIngested, "success")
           /\ kafkaProducerErrors' = kafkaProducerErrors + 1]_vars

C10_Witness ==
    /\ lastResp.kind = "single" /\ lastResp.writeErr /\ lastResp.status = 503
    /\ kafkaProducerErrors = 1 /\ WithStatus(eventsIngested, "success") = 1

\* C11: when the produce call of a batch request fails the answer is 503, no
\* event of the batch is counted as success and no event of the batch is in the
\* log.
C11_BatchProduceFailure ==
    [][(Served("batch") /\ lastResp'.writeErr)
        => /\ lastResp'.status = 503
           /\ WithStatus(eventsIngested', "success") = WithStatus(eventsIngested, "success")
           /\ log' = log]_vars

\* C12: every record of the log has as key the service of its event, so two
\* records of events with the same service are in the same partition.
C12_KeyIsService ==
    /\ \A i \in 1..Len(log) : log[i].key = log[i].value.service
    /\ \A i, j \in 1..Len(log) :
          log[i].value.service = log[j].value.service
              => Balance(log[i], NumPartitions) = Balance(log[j], NumPartitions)

C12_Witness ==
    /\ handled = 2 /\ lastResp.kind = "batch" /\ Len(lastResp.messages) = 2
    /\ Len(log) = 3
    /\ log[1].key = "api" /\ log[2].key = "api" /\ log[3].key = "db"

\* C13: every payload in the log has a non-empty service, level and message, a
\* level of the closed set, a non-zero timestamp, a non-zero ingested_at and
\* the hostname of the ingestion node as host.
PayloadComplete(v) ==
    /\ {"service", "level", "message", "timestamp", "ingested_at", "host"} \subseteq DOMAIN v
    /\ v.service # "" /\ v.level # "" /\ v.message # ""
    /\ v.level \in {"DEBUG", "INFO", "WARN", "ERROR", "CRITICAL"}
    /\ v.timestamp # 0 /\ v.ingested_at # 0
    /\ v.host = Hostname

EnrichedOf(resp) ==
    IF resp.kind = "single"
    THEN <<SetHost(Validate(resp.body.event, resp.at))>>
    ELSE [i \in 1..Len(resp.body.events) |-> SetHost(Validate(resp.body.events[i], resp.at))]

C17_ToJSONRoundTrip ==
    lastResp.called
        => /\ Len(lastResp.messages) = Len(EnrichedOf(lastResp))
           /\ \A i \in 1..Len(lastResp.messages) :
                 /\ lastResp.messages[i].value = ToJSON(EnrichedOf(lastResp)[i]).bytes
                 /\ ~Unmarshal(lastResp.messages[i].value).err
                 /\ Unmarshal(lastResp.messages[i].value).event = EnrichedOf(lastResp)[i]

(***************************************************************************)
(* Claims on the ingestion service as a process                            *)
(***************************************************************************)
\* C14: GET /ready answers 200 if and only if the log is reachable at the time
\* of the request, and 503 when it is not.
C14_ReadyIffReachable ==
    lastReady.status # 0
        => /\ lastReady.status = 200 <=> lastReady.reachable
           /\ ~lastReady.reachable => lastReady.status = 503

\* C15: after the shutdown signal no new request is accepted, the producer is
\* closed only when no request is in flight any more, and no handler calls
\* WriteMessages on the closed producer.
C15_GracefulShutdown ==
    [][/\ \A c \in 1..MaxConns :
             (conns[c].pc = "idle" /\ conns'[c].pc = "reading") => srvpc = "serving"
       /\ (~writerClosed /\ writerClosed') => InFlight = {}
       /\ \A c \in 1..MaxConns :
             (conns[c].pc = "reading" /\ conns'[c].pc = "writing") => ~writerClosed]_vars

\* a request that was still being read at the signal has been answered 202
\* before the producer was closed
C15_Witness ==
    /\ srvpc = "closed" /\ writerClosed
    /\ lastResp.status = 202 /\ lastResp.at > sigAt /\ sigAt > 0

\* C20: the answer to a request and the messages produced for it are those of
\* its own body and of the outcome of its own produce call, whatever the other
\* requests do; and once the log answers again a produce call does not fail
\* because an earlier one did.
Rejected(kind, body) ==
    \/ ~body.ok
    \/ kind = "single" /\ ~ValidStruct(body.event)
    \/ kind = "batch" /\ ~BatchValid(body)

MessagesFor(kind, body, t) ==
    IF kind = "single" THEN <<Produced(body.event, t)>>
    ELSE [i \in 1..Len(body.events) |-> Produced(body.events[i], t)]

C20_RequestsIndependent ==
    [][\A c \in 1..MaxConns :
          (conns[c].pc # "idle" /\ conns'[c].pc = "idle")
              => /\ lastResp'.kind = conns[c].kind /\ lastResp'.body = conns[c].body
                 /\ lastResp'.called = ~Rejected(conns[c].kind, conns[c].body)
                 /\ lastResp'.status =
                        (IF Rejected(conns[c].kind, conns[c].body) THEN 400
                         ELSE IF lastResp'.writeErr THEN 503 ELSE 202)
                 /\ lastResp'.called =>
                        /\ lastResp'.messages =
                               MessagesFor(conns[c].kind, conns[c].body, lastResp'.at)
                        /\ \E w \in WriteOutcomes(lastResp'.messages) :
                               w.err = lastResp'.writeErr /\ log' = log \o w.written
                        /\ reachable => ~lastResp'.writeErr]_vars

\* a request enriched after the one answered last has failed in between, and
\* the one answered last got 202 all the same
C20_Witness ==
    /\ handled = 2 /\ kafkaProducerErrors = 1
    /\ lastResp.status = 202
    /\ \E i \in 1..Len(log) : log[i].value.ingested_at > lastResp.at

(***************************************************************************)
(* Claims on the storage writer                                            *)
(***************************************************************************)
\* the event of the record at offset off, when the record parses
Parses(off) == ~Unmarshal(log[off + 1].value).err
EventAt(off) == Unmarshal(log[off + 1].value).event
Offsets == 0..(Len(log) - 1)
Stored(e) == e \in Range(rows)
OffsetCommitted(off) == off < committed
OffsetsOf(e) == {off \in Offsets : Parses(off) /\ EventAt(off) = e}

\* C2: the offset of an event message is committed only after the transaction
\* that inserts the event has committed: a committed offset of a record that
\* parses implies that the event's row is in the events table.
C2_CommitAfterStore ==
    \A off \in Offsets : (OffsetCommitted(off) /\ Parses(off)) => Stored(EventAt(off))

\* C3: when the transaction of a flush fails, no offset of the messages of that
\* batch is committed (so that they are delivered again after a restart).
C3_FailedFlushHoldsOffsets ==
    flushed.outcome \in {"begin_failed", "prepare_failed", "commit_failed"}
        => \A i \in 1..Len(flushed.events) :
              \A off \in OffsetsOf(flushed.events[i]) : ~OffsetCommitted(off)

\* C4: once the storage writer has been killed, started again and has caught
\* up (nothing left to fetch, nothing in memory, every offset committed), every
\* event of the log has at least one row.
CaughtUp ==
    /\ Up /\ ~ctxDone /\ fpc = "select"
    /\ pos = Len(log) /\ committed = Len(log)
    /\ batchCh = <<>> /\ batch = <<>>

C4_NoLossAfterRestart ==
    (restarts >= 1 /\ CaughtUp)
        => \A off \in Offsets : Parses(off) => Stored(EventAt(off))

\* C5: the fetch loop never drops an event: it leaves the send only by putting
\* the event in the channel, so it commits no offset of an event it did not
\* enqueue.
C5_NeverDrops ==
    [][(fpc = "send" /\ fpc' = "commit") => batchCh' = Append(batchCh, cur.event)]_vars

\* C16: on shutdown the storage writer writes every event it holds in memory
\* before it exits: once the batch writer, the only goroutine that writes to
\* the database, has returned, no event is left in the channel.
C16_ShutdownFlushesHeld ==
    (Up /\ bwpc = "done") => batchCh = <<>>

\* C18: a process that ended has the exit code prescribed for the cause: 0 for
\* a clean shutdown, 2 for a configuration error, 3 for a store that is
\* unreachable at startup.
PrescribedExitCode(cause) ==
    CASE cause = "clean" -> 0
      [] cause = "config_error" -> 2
      [] cause = "store_unreachable" -> 3
      [] cause = "log_unreachable" -> 4

C18_ExitCodes ==
    exitCause \in {"clean", "config_error", "store_unreachable"}
        => exitCode = PrescribedExitCode(exitCause)

\* C19: the events are inserted in the order in which they were fetched, across
\* batches: the rows of one run of the process are in offset order, so the
\* table has at most one step back in offset per restart.
OffsetOf(e) == CHOOSE off \in Offsets : log[off + 1].value = ToJSON(e).bytes
Descents(s) ==
    LET offs == [i \in 1..Len(s) |-> OffsetOf(s[i])]
    IN  Cardinality({i \in 1..(Len(s) - 1) : offs[i] >= offs[i + 1]})

NewAnomalies == {anomalies'[i] : i \in (Len(anomalies) + 1)..Len(anomalies')}

\* C21: every anomaly record comes from a bucket with at least
\* MIN_EVENTS_PER_WINDOW events: the record that a step emits, whether the
\* bucket is closed by a later event or by the tick, carries the event count of
\* the bucket it closes, and that count is at least the minimum.
C21_AnomalyFromFullBucket ==
    [][\A r \in NewAnomalies :
          /\ r.event_count >= MinEventsPerWindow
          /\ windows[r.service][r.time - WindowSize].count = r.event_count]_vars

C21_Witness ==
    /\ \E i \in 1..Len(anomalies) : anomalies[i].event_count = MinEventsPerWindow
    /\ \E s \in DetServices, b \in BucketStarts :
          windows[s][b].count \in 1..(MinEventsPerWindow - 1)

\* C22: the severity of every emitted anomaly is the first matching row of the
\* table on (score, error_rate): CRITICAL if score < -1.0 or error_rate > 0.50,
\* else HIGH if score < -0.85 or error_rate > 0.30, else MEDIUM if score < -0.70
\* or error_rate > 0.15, else LOW if score < THRESHOLD; never no row.
C22_SeverityByTable ==
    \A i \in 1..Len(anomalies) :
        LET r == anomalies[i]
            critical == r.score < -100 \/ 2 * r.errors > r.event_count
            high == r.score < -85 \/ 10 * r.errors > 3 * r.event_count
            medium == r.score < -70 \/ 20 * r.errors > 3 * r.event_count
            low == r.score < r.threshold
        IN  /\ critical => r.severity = "CRITICAL"
            /\ (~critical /\ high) => r.severity = "HIGH"
            /\ (~critical /\ ~high /\ medium) => r.severity = "MEDIUM"
            /\ (~critical /\ ~high /\ ~medium) => (low /\ r.severity = "LOW")

\* an error rate above 0.50 with a score that alone gives no anomaly
C22_Witness ==
    \E i \in 1..Len(anomalies) :
        /\ anomalies[i].score = -70 /\ 2 * anomalies[i].errors > anomalies[i].event_count
        /\ anomalies[i].severity = "CRITICAL"

\* C23: with the default threshold, an anomaly with score -0.71 and an error
\* rate of no more than 0.05 is classified LOW.
C23_LowJustBelowThreshold ==
    \A i \in 1..Len(anomalies) :
        (anomalies[i].score = -71 /\ 100 * anomalies[i].errors <= 5 * anomalies[i].event_count)
            => anomalies[i].severity = "LOW"

\* C24: every (service, bucket start) is scored at most once, also when events
\* arrive for a bucket that was scored and discarded.
C24_ScoredAtMostOnce ==
    \A i, j \in 1..Len(scorings) : scorings[i] = scorings[j] => i = j

\* C25: two anomaly records of one service are at least DEDUP_COOLDOWN apart;
\* an alert within the cooldown is counted as suppressed instead of emitted,
\* and the timestamp of the last alert is never set within the cooldown of its
\* former value.
C25_Cooldown ==
    /\ [](\A i, j \in 1..Len(anomalies) :
            (i < j /\ anomalies[i].service = anomalies[j].service)
                => anomalies[j].at - anomalies[i].at >= DedupCooldown)
    /\ [](suppressed + Len(anomalies) <= Len(scorings))
    /\ [][\A s \in DetServices :
            lastAlert'[s] # lastAlert[s]
                => /\ lastAlert[s] = -1 \/ now - lastAlert[s] >= DedupCooldown
                   /\ lastAlert'[s] = now]_vars

\* an anomaly, then an alert of its service suppressed within the cooldown,
\* which left the timestamp of the last alert at the anomaly
C25_Witness ==
    /\ suppressed > 0
    /\ \E i \in 1..Len(anomalies) :
          /\ lastAlert[anomalies[i].service] = anomalies[i].at
          /\ now > anomalies[i].at
          /\ Cardinality({k \in 1..Len(scorings) : scorings[k][1] = anomalies[i].service}) >= 2

(***************************************************************************)
(* Claims on the produce calls of the handlers                             *)
(***************************************************************************)
\* the message carries the event of the request: its key is the service, its
\* payload has the service, level and message of the event
CarriesEvent(m, e) ==
    /\ m.key = e.service
    /\ m.value.service = e.service /\ m.value.level = e.level
    /\ m.value.message = e.message

\* C26: a single-event request that passes validation makes one produce call
\* with exactly one message, that of its event; a batch request that passes
\* validation makes one produce call with one message per prepared event, in
\* the order of the events of the request; a request that fails validation
\* makes no produce call.
C26_OneProduceCall ==
    [][handled' = handled + 1 =>
        LET r == lastResp'
        IN  /\ (r.kind = "single" /\ r.body.ok /\ ValidStruct(r.body.event))
                  => /\ r.called /\ Len(r.messages) = 1
                     /\ CarriesEvent(r.messages[1], r.body.event)
            /\ (r.kind = "batch" /\ r.body.ok /\ BatchValid(r.body))
                  => /\ r.called /\ Len(r.messages) = Len(r.body.events)
                     /\ \A i \in 1..Len(r.messages) :
                            CarriesEvent(r.messages[i], r.body.events[i])
            /\ (r.kind = "single" /\ ~(r.body.ok /\ ValidStruct(r.body.event)))
                  => ~r.called
            /\ (r.kind = "batch" /\ ~(r.body.ok /\ BatchValid(r.body)))
                  => ~r.called
            /\ Len(log') <= Len(log) + Len(r.messages)]_vars

C26_Witness ==
    /\ handled = 2 /\ lastResp.kind = "batch" /\ lastResp.called
    /\ Len(lastResp.messages) = 2
    /\ lastResp.messages[1].key = "api" /\ lastResp.messages[2].key = "db"
    /\ Len(log) = 3 /\ Len(acked) = 3

(***************************************************************************)
(* Claims on the batches of the storage writer                             *)
(***************************************************************************)
\* the batch writer takes an event from the channel in this step
Received ==
    /\ proc = "up" /\ proc' = "up" /\ bwpc = "run"
    /\ batchCh # <<>> /\ batchCh' = Tail(batchCh)

\* C27: the batch never holds more than the target size (100) and the channel
\* never more than its capacity (1000); a received event that brings the batch
\* to the target size is flushed with the batch at once and the batch is
\* reset, an event that does not is only appended; every flush, also that of
\* the timer, writes a batch that is not empty and leaves the batch empty.
C27_BatchBounded ==
    /\ [](Len(batch) <= BatchTarget /\ Len(batchCh) <= ChanCap)
    /\ [][Received =>
            LET appended == Append(batch, Head(batchCh))
            IN  IF Len(appended) >= BatchTarget
                THEN flushed'.events = appended /\ batch' = <<>>
                ELSE flushed' = NoFlush /\ batch' = appended]_vars
    /\ [][flushed' # NoFlush =>
            /\ Len(flushed'.events) \in 1..BatchTarget
            /\ batch' = <<>>
            /\ (batchCh' = batchCh /\ bwpc' = "run") => flushed'.events = batch]_vars

\* the flush of a batch that has just reached the target size, taken from a
\* full channel, while the fetch loop holds the next event
C27_Witness ==
    /\ flushed # NoFlush /\ Len(flushed.events) = BatchTarget
    /\ batch = <<>> /\ Len(batchCh) = ChanCap - 1
    /\ fpc = "send"

\* the event of the record at offset off is in the channel, in a flush
InChannel(off) ==
    off < Len(log) /\ Parses(off) /\ EventAt(off) \in Range(batchCh)
InFlush(off) ==
    off < Len(log) /\ Parses(off) /\ EventAt(off) \in Range(flushed.events)

\* the events the batch writer holds or is about to receive
Held == batchCh \o batch

\* C28: without shutdown, and with the batch writer and its timer running,
\* every event put in the channel is eventually part of a writeBatch call; no
\* event is held twice, an event that is flushed was held, is flushed once in
\* that call and is held no more afterwards (so it is in no second flush).
C28_EnqueuedFlushedOnce ==
    /\ \A off \in 0..(MaxLog - 1) : InChannel(off) ~> InFlush(off)
    /\ [](\A e \in Range(Held) : Count(Held, e) = 1)
    /\ [][\A e \in Range(flushed'.events) :
            /\ e \in Range(Held)
            /\ e \notin Range(Held')
            /\ Count(flushed'.events, e) = 1]_vars

\* an event flushed by the timer while the next one waits in the channel
C28_Witness ==
    /\ flushed # NoFlush /\ Len(flushed.events) = 1
    /\ batchCh # <<>> /\ batch = <<>>

(***************************************************************************)
(* Claims on a rejected insert                                             *)
(***************************************************************************)
\* the one rule of the events table a decoded event can break: the CHECK on
\* level (an empty string is not NULL)
ProvablyBad(e) == e.level \notin Levels

\* C29: when the insert of an event of a batch is rejected and its row is not
\* provably bad, the offset is not advanced past the event (so that the event
\* is delivered again and retried).
C29_RejectedHoldsOffset ==
    flushed.failAt > 0
        => LET e == flushed.events[flushed.failAt]
           IN  ~ProvablyBad(e) => \A off \in OffsetsOf(e) : ~OffsetCommitted(off)

\* C30: when the insert of one event of a batch fails, writeBatch goes on with
\* the later events and commits, so that every other event of the batch has
\* its row once writeBatch has returned.
C30_FailedInsertSkipped ==
    flushed.failAt > 0
        => \A i \in 1..Len(flushed.events) :
              i # flushed.failAt => Stored(flushed.events[i])

(***************************************************************************)
(* Claims on the fetch loop of the storage writer                          *)
(***************************************************************************)
\* the fetch loop fetches the record at offset pos in this step
Fetches == proc = "up" /\ proc' = "up" /\ fpc = "select" /\ pos' = pos + 1

\* the fetch loop is through with the record it holds in this step
Commits == proc = "up" /\ proc' = "up" /\ fpc = "commit" /\ fpc' = "select"

\* C31: a record that does not parse as an event never blocks the storage
\* writer: the fetch loop goes from the fetch straight to the commit of its
\* offset without putting anything in the channel, the commit leaves the
\* group's offset past the record unless the commit call itself fails, and the
\* loop is back at its select for the next record; what failed to parse is
\* never in the channel, in the batch or in the table.
C31_BadRecordSkipped ==
    /\ [][(Fetches /\ ~Parses(pos)) =>
            /\ fpc' = "commit" /\ ~cur'.ok /\ cur'.off = pos
            /\ batchCh' = batchCh /\ batch' = batch /\ rows' = rows]_vars
    /\ [][(Commits /\ ~cur.ok) =>
            /\ committed' \in {cur.off + 1, committed}
            /\ batchCh' = batchCh /\ batch' = batch /\ rows' = rows
            /\ pos' = pos]_vars
    /\ [](fpc = "send" => cur.ok)
    /\ [](\A e \in Range(batchCh) \cup Range(batch) \cup Range(rows) :
            \E off \in Offsets : Parses(off) /\ EventAt(off) = e)

\* a record that does not parse at offset 0, committed, and the event of the
\* record after it in the table
C31_Witness ==
    /\ Len(log) >= 2 /\ ~Parses(0) /\ Parses(1)
    /\ committed = 2 /\ pos = 2 /\ fpc = "select"
    /\ rows = <<EventAt(1)>>

\* the fetch loop logs a fetch error in this step
LogsFetchError == fetchErrs' # fetchErrs

\* C32: an error of the fetch other than the cancellation never ends the
\* storage writer: the step that logs it leaves the process up, the fetch loop
\* at its select and the batchWriter running, with nothing fetched, committed
\* or lost; and after fetch errors the loop still fetches the topic to its end
\* unless shutdown is requested first.
C32_FetchErrorRetried ==
    /\ [][LogsFetchError =>
            /\ proc' = "up" /\ fpc' = "select" /\ bwpc' = bwpc /\ mainpc' = mainpc
            /\ ~ctxDone'
            /\ pos' = pos /\ committed' = committed
            /\ batchCh' = batchCh /\ batch' = batch /\ rows' = rows]_vars
    /\ (fetchErrs # {} /\ pos < Len(log)) ~> (pos = Len(log) \/ ctxDone)

\* a fetch error at offset 0, the record at offset 0 and the one after it
\* fetched afterwards and the first one stored, no shutdown requested
C32_Witness ==
    /\ fetchErrs = {0} /\ pos = 2 /\ ~ctxDone
    /\ proc = "up" /\ fpc # "done"
    /\ Len(rows) >= 1

(***************************************************************************)
(* Claims on writeBatch and on the shutdown of the storage writer          *)
(***************************************************************************)
\* C33: every transaction writeBatch opens is finished, committed or rolled
\* back, and its prepared statement closed when writeBatch returns, on every
\* exit path: no transaction is opened when BeginTx fails, the transaction is
\* rolled back and no statement exists when the prepare fails, and after the
\* inserts the statement is closed and the transaction committed (success) or
\* rolled back (an insert or the commit failed).
C33_TxFinished ==
    flushed # NoFlush =>
        /\ flushed.tx # "open" /\ flushed.stmt # "open"
        /\ flushed.outcome = "begin_failed" => flushed.tx = "none" /\ flushed.stmt = "none"
        /\ flushed.outcome = "prepare_failed" => flushed.tx = "rolled_back" /\ flushed.stmt = "none"
        /\ flushed.outcome = "commit_failed" => flushed.tx = "rolled_back" /\ flushed.stmt = "closed"
        /\ flushed.outcome = "ok" => flushed.tx = "committed" /\ flushed.stmt = "closed"

\* a writeBatch of a full batch whose prepare failed: the transaction it
\* opened is rolled back
C33_Witness ==
    /\ flushed # NoFlush /\ flushed.outcome = "prepare_failed"
    /\ Len(flushed.events) = BatchTarget
    /\ flushed.tx = "rolled_back"

\* C34: during the shutdown of the storage writer the database handle and the
\* reader are closed only after the batchWriter's final flush has finished: no
\* writeBatch call runs against a database that main has already closed.
C34_NoFlushAfterClose ==
    dbClosed => flushed = NoFlush

\* C35: after the context of the storage writer is cancelled both of its tasks
\* end: the fetch loop returns and the batchWriter returns, having written the
\* batch it held in at most one writeBatch call; neither stays blocked on the
\* channel, on a fetch or on the timer, and a batchWriter that has returned
\* writes nothing more.
C35_TasksEndAfterCancel ==
    /\ ctxDone ~> (fpc = "done" /\ bwpc = "done")
    /\ [][(bwpc = "run" /\ bwpc' = "done") =>
            /\ ctxDone
            /\ batch' = <<>>
            /\ IF batch = <<>> THEN flushed' = NoFlush /\ rows' = rows
                ELSE flushed' # NoFlush /\ flushed'.events = batch]_vars
    /\ [][bwpc = "done" => bwpc' = "done" /\ flushed' = NoFlush /\ rows' = rows]_vars
    /\ [][fpc = "done" => fpc' = "done" /\ pos' = pos /\ committed' = committed]_vars

\* both tasks have returned after the cancellation, the batchWriter with a
\* final flush of the event it held; a record of the topic is left unfetched
C35_Witness ==
    /\ ctxDone /\ fpc = "done" /\ bwpc = "done"
    /\ flushed # NoFlush /\ Len(flushed.events) = 1
    /\ pos < Len(log)

(***************************************************************************)
(* Claims on the responses and the counters of the two handlers            *)
(***************************************************************************)
\* the batch handler answers 202 in this step
Batch202 ==
    /\ handled' = handled + 1
    /\ lastResp'.kind = "batch" /\ lastResp'.status = StatusAccepted

\* the part of events_ingested_total with status=success
SuccessPart(counter) ==
    [l \in {k \in BagToSet(counter) : k[3] = "success"} |-> counter[l]]

\* the label status=success of the event each message carries
ProducedLabels(messages) ==
    [i \in 1..Len(messages) |->
        <<messages[i].value.service, messages[i].value.level, "success">>]

\* C36: after a 202 of the batch endpoint the status=success counter of
\* events_ingested_total has been incremented exactly once for each event
\* whose message was produced, success_count times in total, and for no other
\* event.
C36_SuccessPerProduced ==
    [][Batch202 =>
        /\ SuccessPart(eventsIngested') =
               SuccessPart(eventsIngested) (+) BagOfSeq(ProducedLabels(lastResp'.messages))
        /\ WithStatus(eventsIngested', "success") =
               WithStatus(eventsIngested, "success") + lastResp'.success_count
        /\ lastResp'.messages = SubSeq(log', Len(log) + 1, Len(log'))]_vars

\* a 202 for a batch of two events of different services, each counted once
C36_Witness ==
    /\ handled = 1 /\ lastResp.kind = "batch" /\ lastResp.status = StatusAccepted
    /\ lastResp.success_count = 2
    /\ lastResp.messages[1].key # lastResp.messages[2].key
    /\ WithStatus(eventsIngested, "success") = 2
    /\ \A l \in BagToSet(eventsIngested) : eventsIngested[l] = 1

\* C37: in every 202 of the batch endpoint total is the number of events of
\* the request, total = success_count + error_count, and success_count is the
\* number of messages handed to the produce call.
C37_BatchCounts ==
    (lastResp.kind = "batch" /\ lastResp.status = StatusAccepted) =>
        /\ lastResp.total = Len(lastResp.body.events)
        /\ lastResp.total = lastResp.success_count + lastResp.error_count
        /\ lastResp.called
        /\ lastResp.success_count = Len(lastResp.messages)

\* a second request answered 202 with total 2 and success_count 2
C37_Witness ==
    /\ handled = 2 /\ lastResp.kind = "batch" /\ lastResp.status = StatusAccepted
    /\ lastResp.total = 2 /\ lastResp.success_count = 2 /\ lastResp.error_count = 0
    /\ Len(lastResp.messages) = 2

\* IngestEvent serves a request in this step
Single == handled' = handled + 1 /\ lastResp'.kind = "single"

\* C38: every invocation of IngestEvent writes one response, with a status of
\* 202, 400, 500 or 503, and increments events_ingested_total exactly once,
\* with one status label; 500 is answered only when the serialization of the
\* enriched event fails, and then nothing is produced.
C38_OneResponseOneCount ==
    [][Single =>
        LET r == lastResp'
            json == ToJSON(SetHost(Validate(r.body.event, now)))
        IN  /\ r.status \in {StatusAccepted, StatusBadRequest,
                              StatusInternalServerError, StatusServiceUnavailable}
            /\ \E l \in BagToSet(eventsIngested') :
                  /\ eventsIngested' = Inc(eventsIngested, l)
                  /\ l[3] \in {"success", "error", "validation_error",
                                "serialization_error", "kafka_error"}
                  /\ l[3] = "success" <=> r.status = StatusAccepted
                  /\ l[3] = "kafka_error" <=> r.status = StatusServiceUnavailable
                  /\ l[3] = "serialization_error" <=> r.status = StatusInternalServerError
            /\ r.status = StatusInternalServerError =>
                  /\ r.body.ok /\ ValidStruct(r.body.event) /\ json.err
                  /\ ~r.called /\ log' = log
            /\ r.status = StatusAccepted => log' = Append(log, r.messages[1])]_vars

\* a request answered 503 and counted once, as kafka_error, after a request
\* answered 400 and counted once
C38_Witness ==
    /\ handled = 2 /\ lastResp.kind = "single"
    /\ lastResp.status = StatusServiceUnavailable
    /\ BagCardinality(eventsIngested) = 2
    /\ WithStatus(eventsIngested, "kafka_error") = 1
    /\ WithStatus(eventsIngested, "success") = 0

(***************************************************************************)
(* Claim on the state of the detector                                      *)
(***************************************************************************)
\* C39: in every reachable state of the detector the number of buckets held
\* for any one service does not exceed the cap, whatever the sequence and the
\* timestamps of the events consumed.
C39_BucketsCapped ==
    \A s \in DetServices : Cardinality(OpenBuckets(windows[s])) <= LruCap

\* a service has consumed one event in each of LruCap + 1 buckets before any
\* bucket could be closed or aged out: it holds LruCap buckets of one event,
\* the oldest one gone
C39_Witness ==
    /\ consumed = LruCap + 1 /\ now = 1 /\ scorings = <<>>
    /\ \E s \in DetServices :
          /\ Cardinality(OpenBuckets(windows[s])) = LruCap
          /\ \A b \in OpenBuckets(windows[s]) : windows[s][b].count = 1
          /\ windows[s][0] = NoBucket
          /\ \A o \in DetServices \ {s} : OpenBuckets(windows[o]) = {}
====
